---- MODULE Spec2Model ----
(***************************************************************************)
(* A model of src/edward_utils.py: the spectral-normalization wrapper      *)
(* (SpectralNormalizationConv2D), the Laplace covariance estimator         *)
(* (LaplaceRandomFeatureCovariance) and the GP head's reset                *)
(* (RandomFeatureGaussianProcess.reset_covariance_matrix).                 *)
(*                                                                         *)
(* Tensors hold exact rationals <<numerator, denominator>> (denominator    *)
(* > 0, lowest terms) where the source holds floats; the values drawn in   *)
(* Init and by the actions are chosen so that every square root the code   *)
(* takes is itself rational.  Variable assignments run in program order    *)
(* (eager execution, as in the file's __main__).                           *)
(***************************************************************************)
EXTENDS Integers, Sequences, FiniteSets, TLC

VARIABLES
  \* SpectralNormalizationConv2D
  kernel,              \* self.layer.kernel; self.w is the same variable
  u, v,                \* self.u, self.v
  iteration,           \* self.iteration
  do_power_iteration,  \* self.do_power_iteration
  norm_multiplier,     \* self.norm_multiplier
  sn_calls,            \* number of forward calls made
  w_pre,               \* value of layer.kernel when the last call began
  u_pre, v_pre,        \* values of self.u and self.v when the last call began
  sigma,               \* sigma computed by the last call
  w_used,              \* value of layer.kernel read by self.layer(inputs)
  output,              \* value returned by the last call
  \* LaplaceRandomFeatureCovariance
  precision_matrix,      \* self.precision_matrix
  covariance_matrix,     \* self.covariance_matrix
  if_update_covariance,  \* self.if_update_covariance (the dirty flag)
  momentum,              \* self.momentum
  ridge_penalty,         \* self.ridge_penalty
  likelihood,            \* self.likelihood
  log,                   \* one record per operation invoked on the estimator
  \* the shapes of SpectralNormalizationConv2D
  w_shape,       \* self.w_shape: (kernel_h, kernel_w, in_channel, out_channel)
  strides,       \* self.strides
  padding,       \* self.padding
  legacy_mode,   \* self.legacy_mode
  input_shape,   \* the shape of the inputs: (batch, height, width, channels)
  in_shape,      \* self.in_shape, the shape of v
  out_shape,     \* self.out_shape, the shape of u
  output_shape,  \* the shape of the value the call returned
  phase,         \* "constructed", "built", "called" or "raised"
  \* the constructors
  layer,         \* the operator passed to SpectralNormalizationConv2D(...)
  layer_before,  \* that operator as it was before the construction
  wrapper,       \* the wrapper object: how __init__ ended, the attributes set
  estimator      \* the estimator object: how far it got, attributes, weights

snvars == <<kernel, u, v, iteration, do_power_iteration, norm_multiplier,
            sn_calls, w_pre, u_pre, v_pre, sigma, w_used, output>>

covvars == <<precision_matrix, covariance_matrix, if_update_covariance,
             momentum, ridge_penalty, likelihood, log>>

shapevars == <<w_shape, strides, padding, legacy_mode, input_shape, in_shape,
               out_shape, output_shape, phase>>

ctorvars == <<layer, layer_before, wrapper, estimator>>

vars == <<snvars, covvars, shapevars, ctorvars>>

-----------------------------------------------------------------------------
(* Bounds *)

MaxCalls == 2
MaxIter == 2
MaxCovCalls == 3
MaxBatch == 2
MaxSize == 6

-----------------------------------------------------------------------------
(* Exact arithmetic standing for the float arithmetic of the tensors *)

Abs(n) == IF n < 0 THEN -n ELSE n

RECURSIVE Gcd(_, _)
Gcd(a, b) == IF b = 0 THEN a ELSE Gcd(b, a % b)

\* the rational n/d in lowest terms, d # 0
Q(n, d) ==
  LET s == IF d < 0 THEN -1 ELSE 1
      g == Gcd(Abs(n), Abs(d))
  IN  <<(s * n) \div g, (s * d) \div g>>

I(n) == <<n, 1>>

\* sums and products reduce before they multiply, to keep the integers small
QAdd(a, b) ==
  LET g == Gcd(a[2], b[2])
  IN  Q(a[1] * (b[2] \div g) + b[1] * (a[2] \div g), (a[2] \div g) * b[2])
QMul(a, b) ==
  LET x == Q(a[1], b[2])
      y == Q(b[1], a[2])
  IN  <<x[1] * y[1], x[2] * y[2]>>
QSub(a, b) == QAdd(a, <<-b[1], b[2]>>)
QDiv(a, b) == QMul(a, IF b[1] < 0 THEN <<-b[2], -b[1]>> ELSE <<b[2], b[1]>>)
QLt(a, b) == a[1] * b[2] < b[1] * a[2]
QLe(a, b) == a[1] * b[2] <= b[1] * a[2]

\* the largest r in lo..hi with r * r <= n, by bisection
RECURSIVE SqrtBetween(_, _, _)
SqrtBetween(n, lo, hi) ==
  IF lo = hi THEN lo
  ELSE LET mid == (lo + hi + 1) \div 2
       IN  IF mid * mid <= n THEN SqrtBetween(n, mid, hi)
           ELSE SqrtBetween(n, lo, mid - 1)

\* the exact integer square root; undefined (TLC stops) when n is no square
ISqrt(n) ==
  LET r == SqrtBetween(n, 0, IF n < 46340 THEN n ELSE 46340)
  IN  IF r * r = n THEN r ELSE CHOOSE x \in {} : TRUE

QSqrt(a) == <<ISqrt(a[1]), ISqrt(a[2])>>

RECURSIVE QSum(_)
QSum(s) == IF s = <<>> THEN I(0) ELSE QAdd(Head(s), QSum(Tail(s)))

\* the tuple with the entries of the function f on 1..n, each computed once
Tuple(f, n) == SubSeq(f, 1, n)

Dot(x, y) == QSum(Tuple([i \in 1..Len(x) |-> QMul(x[i], y[i])], Len(x)))

VecScale(q, x) == Tuple([i \in 1..Len(x) |-> QMul(q, x[i])], Len(x))

MatScale(q, A) == Tuple([i \in 1..Len(A) |-> VecScale(q, A[i])], Len(A))

-----------------------------------------------------------------------------
(* SpectralNormalizationConv2D on a 1x1 kernel over a 1x1 activation map:  *)
(* the kernel is kernel[in_channel][out_channel], v has one entry per      *)
(* input channel and u one per output channel.                             *)

in_channel == 2
out_channel == 2

\* tf.nn.conv2d(x, W): out[o] = sum_i x[i] * W[i][o]
conv2d(x, W) ==
  Tuple([o \in 1..out_channel |->
           QSum(Tuple([i \in 1..in_channel |-> QMul(x[i], W[i][o])], in_channel))],
        out_channel)

\* tf.nn.conv2d_transpose(y, W): out[i] = sum_o y[o] * W[i][o]
conv2d_transpose(y, W) ==
  Tuple([i \in 1..in_channel |->
           QSum(Tuple([o \in 1..out_channel |-> QMul(y[o], W[i][o])], out_channel))],
        in_channel)

\* tf.nn.l2_normalize of the flattened tensor: x * rsqrt(max(sum(x^2), eps)),
\* which is x / |x| for x # 0 and the zero tensor for x = 0
l2_normalize(x) ==
  LET s == Dot(x, x)
  IN  IF s = I(0) THEN x ELSE VecScale(QDiv(I(1), QSqrt(s)), x)

\* the loop body of update_weights, run n times from (u_hat, v_hat)
RECURSIVE power_iteration(_, _, _, _)
power_iteration(n, W, u_hat, v_hat) ==
  IF n = 0 THEN [u_hat |-> u_hat, v_hat |-> v_hat]
  ELSE LET v_ == conv2d_transpose(u_hat, W)
           v1 == l2_normalize(v_)
           u_ == conv2d(v1, W)
           u1 == l2_normalize(u_)
       IN  power_iteration(n - 1, W, u1, v1)

\* sigma = matmul(reshape(conv2d(v_hat, w)), reshape(u_hat))
sigma_of(W, u_hat, v_hat) == Dot(conv2d(v_hat, W), u_hat)

\* the predicate of tf.cond: (norm_multiplier / sigma) < 1.  In IEEE
\* arithmetic c / 0 is +inf for c > 0, which is not below 1.
ratio_below_one(c, sg) ==
  IF sg = I(0) THEN FALSE ELSE QLt(QDiv(c, sg), I(1))

\* a variant of w_norm_of that multiplies by c where the code multiplies by
\* c / sigma
w_norm_without_division(c, sg, W) ==
  IF ratio_below_one(c, sg) THEN MatScale(c, W) ELSE W

\* w_norm = tf.cond(c / sigma < 1, (c / sigma) * w, w)
w_norm_of(c, sg, W) ==
  IF ratio_below_one(c, sg) THEN MatScale(QDiv(c, sg), W) ELSE W

\* a variant of update_weights that runs the loop whatever
\* do_power_iteration says
update_weights_always_iterating ==
  LET w == kernel
      it == power_iteration(iteration, w, u, v)
      sg == sigma_of(w, it.u_hat, it.v_hat)
  IN  [u_hat |-> it.u_hat, v_hat |-> it.v_hat, sigma |-> sg,
       w_norm |-> w_norm_of(norm_multiplier, sg, w)]

\* update_weights(): the values it assigns to u, v and layer.kernel
update_weights ==
  LET w == kernel
      it == IF do_power_iteration
            THEN power_iteration(iteration, w, u, v)
            ELSE [u_hat |-> u, v_hat |-> v]
      sg == sigma_of(w, it.u_hat, it.v_hat)
  IN  [u_hat |-> it.u_hat, v_hat |-> it.v_hat, sigma |-> sg,
       w_norm |-> w_norm_of(norm_multiplier, sg, w)]

\* restore_weights(): layer.kernel.assign(self.w), where self.w is
\* layer.kernel itself (build: self.w = self.layer.kernel), so the value
\* assigned is the value the variable holds at that moment
restore_weights(current_kernel) == current_kernel

Kernels ==
  { <<<<I(2), I(0)>>, <<I(0), I(2)>>>>,
    <<<<I(3), I(0)>>, <<I(4), I(0)>>>>,
    <<<<I(12), I(9)>>, <<I(16), I(12)>>>>,
    <<<<I(0), Q(-1, 2)>>, <<Q(1, 2), I(0)>>>>,
    <<<<I(0), I(0)>>, <<I(0), I(0)>>>> }

UValues == { <<I(1), I(0)>>, <<I(0), I(-1)>>, <<I(3), I(4)>>, <<I(-4), I(3)>> }
VValues == { <<I(1), I(0)>>, <<I(-3), I(4)>>, <<I(1), I(1)>> }
NormMultipliers == { Q(19, 20), I(6) }
Inputs == { <<I(1), I(0)>>, <<I(1), I(-2)>> }

\* __init__ and build: the kernel is whatever the layer's initializer (or
\* training so far) left, u and v are random_normal draws
SNBuilt(K, u0, v0, k, training, c) ==
  /\ kernel = K
  /\ u = u0
  /\ v = v0
  /\ iteration = k
  /\ do_power_iteration = training
  /\ norm_multiplier = c
  /\ sn_calls = 0
  /\ w_pre = kernel
  /\ u_pre = u
  /\ v_pre = v
  /\ sigma = I(0)
  /\ w_used = kernel
  /\ output = <<I(0), I(0)>>

SNInit ==
  \E K \in Kernels, u0 \in UValues, v0 \in VValues, k \in 0..MaxIter,
     training \in BOOLEAN, c \in NormMultipliers :
    SNBuilt(K, u0, v0, k, training, c)

\* the wrapper of __main__ (iteration=1, norm_multiplier=6., training=True)
SNMain ==
  SNBuilt(<<<<I(2), I(0)>>, <<I(0), I(2)>>>>, <<I(1), I(0)>>, <<I(1), I(0)>>,
          1, TRUE, I(6))

\* call(inputs)
SpectralNormalizationConv2D_call(inputs) ==
  /\ sn_calls < MaxCalls
  /\ LET r == update_weights
         kernel_1 == r.w_norm                  \* layer.kernel.assign(w_norm)
         out == conv2d(inputs, kernel_1)       \* self.layer(inputs)
         kernel_2 == restore_weights(kernel_1) \* layer.kernel.assign(self.w)
     IN  /\ u' = r.u_hat
         /\ v' = r.v_hat
         /\ kernel' = kernel_2
         /\ sigma' = r.sigma
         /\ w_used' = kernel_1
         /\ output' = out
  /\ w_pre' = kernel
  /\ u_pre' = u
  /\ v_pre' = v
  /\ sn_calls' = sn_calls + 1
  /\ UNCHANGED <<iteration, do_power_iteration, norm_multiplier>>
  /\ UNCHANGED <<covvars, shapevars, ctorvars>>

Forward == \E inputs \in Inputs : SpectralNormalizationConv2D_call(inputs)

-----------------------------------------------------------------------------
(* Matrices: tuples of rows *)

Zeros(n, m) == Tuple([i \in 1..n |-> Tuple([j \in 1..m |-> I(0)], m)], n)

Eye(n) ==
  Tuple([i \in 1..n |-> Tuple([j \in 1..n |-> IF i = j THEN I(1) ELSE I(0)], n)], n)

Transpose(A) ==
  Tuple([j \in 1..Len(A[1]) |-> Tuple([i \in 1..Len(A) |-> A[i][j]], Len(A))],
        Len(A[1]))

MatAdd(A, B) ==
  Tuple([i \in 1..Len(A) |->
           Tuple([j \in 1..Len(A[1]) |-> QAdd(A[i][j], B[i][j])], Len(A[1]))],
        Len(A))

\* tf.matmul(A, B)
MatMul(A, B) ==
  Tuple([i \in 1..Len(A) |->
           Tuple([j \in 1..Len(B[1]) |->
                    QSum(Tuple([k \in 1..Len(B) |-> QMul(A[i][k], B[k][j])], Len(B)))],
                 Len(B[1]))],
        Len(A))

\* tf.linalg.inv of a 2x2 matrix
MatInv(A) ==
  LET det == QSub(QMul(A[1][1], A[2][2]), QMul(A[1][2], A[2][1]))
      neg(q) == QSub(I(0), q)
  IN  MatScale(QDiv(I(1), det),
               <<<<A[2][2], neg(A[1][2])>>, <<neg(A[2][1]), A[1][1]>>>>)

-----------------------------------------------------------------------------
(* LaplaceRandomFeatureCovariance.  A logits tensor holds exp(logit) for   *)
(* each logit, so that tf.exp and tf.sigmoid are exact; None is <<>>.      *)

gp_feature_dim == 2

_SUPPORTED_LIKELIHOOD == {"binary_logistic", "poisson", "gaussian"}

None == <<>>

\* a variant of logits_rejected without the check of the last dimension
logits_rejected_when_missing(logits) ==
  /\ likelihood # "gaussian"
  /\ logits = None

\* the two raise statements of update_feature_precision_matrix
logits_rejected(logits) ==
  /\ likelihood # "gaussian"
  /\ \/ logits = None
     \/ Len(logits[1]) # 1

\* prob_multiplier of example i
prob_multiplier(logits, i) ==
  IF likelihood = "binary_logistic"
  THEN LET prob == QDiv(logits[i][1], QAdd(I(1), logits[i][1]))   \* tf.sigmoid
       IN  QMul(prob, QSub(I(1), prob))
  ELSE IF likelihood = "poisson"
  THEN logits[i][1]                                               \* tf.exp
  ELSE I(1)

\* precision_matrix_minibatch before the division by batch_size
precision_matrix_minibatch(gp_feature, logits) ==
  LET gp_feature_adjusted ==
        Tuple([i \in 1..Len(gp_feature) |->
                 VecScale(QSqrt(prob_multiplier(logits, i)), gp_feature[i])],
              Len(gp_feature))
  IN  MatMul(Transpose(gp_feature_adjusted), gp_feature_adjusted)

\* a variant of precision_matrix_new with the two weights of the moving
\* average exchanged
precision_matrix_new_swapped(P, gp_feature, logits) ==
  LET batch_size == I(Len(gp_feature))
      minibatch == precision_matrix_minibatch(gp_feature, logits)
  IN  IF QLt(I(0), momentum)
      THEN MatAdd(MatScale(QSub(I(1), momentum), P),
                  MatScale(momentum,
                           MatScale(QDiv(I(1), batch_size), minibatch)))
      ELSE MatAdd(P, minibatch)

\* a variant of precision_matrix_new that divides by batch_size in the
\* exact-sum branch too
precision_matrix_new_averaged(P, gp_feature, logits) ==
  LET batch_size == I(Len(gp_feature))
      minibatch == MatScale(QDiv(I(1), batch_size),
                            precision_matrix_minibatch(gp_feature, logits))
  IN  IF QLt(I(0), momentum)
      THEN MatAdd(MatScale(momentum, P),
                  MatScale(QSub(I(1), momentum), minibatch))
      ELSE MatAdd(P, minibatch)

\* precision_matrix_new, from the precision matrix P the variable holds
precision_matrix_new(P, gp_feature, logits) ==
  LET batch_size == I(Len(gp_feature))
      minibatch == precision_matrix_minibatch(gp_feature, logits)
  IN  IF QLt(I(0), momentum)
      THEN MatAdd(MatScale(momentum, P),
                  MatScale(QSub(I(1), momentum),
                           MatScale(QDiv(I(1), batch_size), minibatch)))
      ELSE MatAdd(P, minibatch)

\* a variant of update_feature_precision_matrix that returns the precision
\* matrix it found
update_feature_precision_matrix_unwritten(gp_feature, logits) == precision_matrix

\* update_feature_precision_matrix, past its two raise statements
update_feature_precision_matrix(gp_feature, logits) ==
  precision_matrix_new(precision_matrix, gp_feature, logits)

\* a variant of initial_precision_matrix: the ridge on the diagonal
initial_precision_matrix_ridge == MatScale(ridge_penalty, Eye(gp_feature_dim))

\* build: self.initial_precision_matrix
initial_precision_matrix == Zeros(gp_feature_dim, gp_feature_dim)

\* a variant of update_feature_covariance_matrix that inverts whatever the
\* flag says
update_feature_covariance_matrix_always ==
  [value |-> MatInv(MatAdd(MatScale(ridge_penalty, Eye(gp_feature_dim)),
                           precision_matrix)),
   inversions |-> 1]

\* update_feature_covariance_matrix: the value of tf.cond, and how many times
\* tf.linalg.inv ran to produce it
update_feature_covariance_matrix ==
  IF if_update_covariance
  THEN [value |-> MatInv(MatAdd(MatScale(ridge_penalty, Eye(gp_feature_dim)),
                                precision_matrix)),
        inversions |-> 1]
  ELSE [value |-> covariance_matrix, inversions |-> 0]

\* a variant of compute_predictive_covariance that reads the covariance
\* matrix the call found instead of the one it stored
compute_predictive_covariance_cached(C, gp_feature) ==
  LET cov_feature_product ==
        MatScale(ridge_penalty, MatMul(covariance_matrix, Transpose(gp_feature)))
  IN  MatMul(gp_feature, cov_feature_product)

\* compute_predictive_covariance, reading the covariance matrix C just stored
compute_predictive_covariance(C, gp_feature) ==
  LET cov_feature_product == MatScale(ridge_penalty, MatMul(C, Transpose(gp_feature)))
  IN  MatMul(gp_feature, cov_feature_product)

\* the record of one operation: what was asked, the state it found, what it did
Entry(op, training, inputs, logits, raised, inversions, ret) ==
  [op |-> op, training |-> training, inputs |-> inputs, logits |-> logits,
   P |-> precision_matrix, C |-> covariance_matrix, flag |-> if_update_covariance,
   raised |-> raised, inversions |-> inversions, ret |-> ret]

Momenta == { I(-1), I(0), Q(1, 2), Q(3, 4) }
RidgePenalties == { Q(1, 2) }
\* a draw of the default initializer of add_weight (glorot_uniform)
CovarianceDraws == { <<<<Q(1, 2), Q(-1, 4)>>, <<Q(3, 4), I(1)>>>> }

\* the inputs of the calls: a minibatch of one example and one of MaxBatch
\* examples, example i having the features FeatureRow(i)
FeatureRow(i) == <<I(i), I(1 - i)>>
Batch(b) == Tuple([i \in 1..b |-> FeatureRow(i)], b)
Batches == { Batch(1), Batch(MaxBatch) }

\* a (b x 1) and a (b x 2) logits tensor
Univariate(b) == Tuple([i \in 1..b |-> <<IF i % 2 = 1 THEN I(4) ELSE I(1)>>], b)
Multivariate(b) == Tuple([i \in 1..b |-> <<I(1), I(4)>>], b)
LogitsFor(b) == {None, Multivariate(b), Univariate(b)}

\* __init__ (with a supported likelihood) and build
CovBuilt(m, s, lik, C0) ==
  /\ momentum = m
  /\ ridge_penalty = s
  /\ likelihood = lik
  /\ precision_matrix = Zeros(gp_feature_dim, gp_feature_dim)   \* initializer Zeros()
  /\ covariance_matrix = C0
  /\ if_update_covariance = FALSE
  /\ log = <<>>

CovInit ==
  \E m \in Momenta, s \in RidgePenalties, lik \in _SUPPORTED_LIKELIHOOD,
     C0 \in CovarianceDraws :
    CovBuilt(m, s, lik, C0)

\* the estimator with the constructor's defaults
CovDefault == CovBuilt(Q(999, 1000), I(1), "gaussian", Eye(gp_feature_dim))

\* a variant of call that sets the flag before the logits are validated
LaplaceRandomFeatureCovariance_call_flag_first(inputs, logits, training) ==
  /\ Len(log) < MaxCovCalls
  /\ UNCHANGED <<snvars, shapevars, ctorvars>>
  /\ UNCHANGED <<momentum, ridge_penalty, likelihood>>
  /\ IF training
     THEN /\ if_update_covariance' = TRUE
          /\ UNCHANGED covariance_matrix
          /\ IF logits_rejected(logits)
             THEN /\ log' = Append(log, Entry("call", training, inputs, logits, TRUE, 0, <<>>))
                  /\ UNCHANGED precision_matrix
             ELSE /\ precision_matrix' = update_feature_precision_matrix(inputs, logits)
                  /\ log' = Append(log, Entry("call", training, inputs, logits, FALSE, 0,
                                              Eye(Len(inputs))))
     ELSE LET r == update_feature_covariance_matrix
          IN  /\ covariance_matrix' = r.value
              /\ if_update_covariance' = FALSE
              /\ UNCHANGED precision_matrix
              /\ log' = Append(log, Entry("call", training, inputs, logits, FALSE,
                                          r.inversions,
                                          compute_predictive_covariance(r.value, inputs)))

\* call(inputs, logits, training)
LaplaceRandomFeatureCovariance_call(inputs, logits, training) ==
  /\ Len(log) < MaxCovCalls
  /\ UNCHANGED <<snvars, shapevars, ctorvars>>
  /\ UNCHANGED <<momentum, ridge_penalty, likelihood>>
  /\ IF training
     THEN IF logits_rejected(logits)
          THEN /\ log' = Append(log, Entry("call", training, inputs, logits, TRUE, 0, <<>>))
               /\ UNCHANGED <<precision_matrix, covariance_matrix, if_update_covariance>>
          ELSE /\ precision_matrix' = update_feature_precision_matrix(inputs, logits)
               /\ if_update_covariance' = TRUE
               /\ UNCHANGED covariance_matrix
               /\ log' = Append(log, Entry("call", training, inputs, logits, FALSE, 0,
                                           Eye(Len(inputs))))
     ELSE LET r == update_feature_covariance_matrix
          IN  /\ covariance_matrix' = r.value
              /\ if_update_covariance' = FALSE
              /\ UNCHANGED precision_matrix
              /\ log' = Append(log, Entry("call", training, inputs, logits, FALSE,
                                          r.inversions,
                                          compute_predictive_covariance(r.value, inputs)))

\* reset_precision_matrix()
reset_precision_matrix ==
  /\ Len(log) < MaxCovCalls
  /\ UNCHANGED <<snvars, shapevars, ctorvars>>
  /\ precision_matrix' = initial_precision_matrix
  /\ log' = Append(log, Entry("reset", FALSE, <<>>, None, FALSE, 0, <<>>))
  /\ UNCHANGED <<covariance_matrix, if_update_covariance,
                 momentum, ridge_penalty, likelihood>>

\* RandomFeatureGaussianProcess.reset_covariance_matrix()
reset_covariance_matrix == reset_precision_matrix

Train ==
  \E inputs \in Batches : \E logits \in LogitsFor(Len(inputs)) :
    LaplaceRandomFeatureCovariance_call(inputs, logits, TRUE)

Infer ==
  \E inputs \in Batches : \E logits \in {None, Univariate(Len(inputs))} :
    LaplaceRandomFeatureCovariance_call(inputs, logits, FALSE)

-----------------------------------------------------------------------------
(* The shapes SpectralNormalizationConv2D gives u and v, and the shapes of *)
(* the tensors its call computes.                                          *)

\* the wrapped layer of __main__: Conv2D(32, ...) applied to 3-channel images
filters == 32
channels == 3

\* the output size of a convolution along one axis (TensorFlow's rule)
conv_size(size, k, stride, pad) ==
  IF pad = "SAME" THEN (size + stride - 1) \div stride
  ELSE (size - k + stride) \div stride

\* the shape of tf.nn.conv2d(x, w, strides, padding) for x of shape xs
conv2d_shape(xs) ==
  <<xs[1], conv_size(xs[2], w_shape[1], strides[1], padding),
    conv_size(xs[3], w_shape[2], strides[2], padding), w_shape[4]>>

\* a variant of build_out_size without the "+ 1" of the VALID branch
build_out_size_without_one(size, k, stride) ==
  IF padding = "SAME" THEN size \div stride
  ELSE (size - k) \div stride

\* build: out_height and out_width
build_out_size(size, k, stride) ==
  IF padding = "SAME" THEN size \div stride
  ELSE (size - k) \div stride + 1

Sizes == (3..MaxSize) \cup {229}
KernelSizes == {1, 3}
Strides == {1, 2, 3}

\* __init__ of the layer and of the wrapper
ShapeConstructed(k, st, pad, legacy) ==
  /\ w_shape = <<k, k, channels, filters>>
  /\ strides = <<st, st>>
  /\ padding = pad
  /\ legacy_mode = legacy
  /\ input_shape = <<>>
  /\ in_shape = <<>>
  /\ out_shape = <<>>
  /\ output_shape = <<>>
  /\ phase = "constructed"

ShapeInit ==
  \E k \in KernelSizes, st \in Strides, pad \in {"VALID", "SAME"},
     legacy \in BOOLEAN :
    ShapeConstructed(k, st, pad, legacy)

\* the wrapper of __main__: kernel_size=(3, 3), strides=2, padding="valid"
ShapeMain == ShapeConstructed(3, 2, "VALID", FALSE)

\* build(input_shape)
build(shape) ==
  /\ phase = "constructed"
  /\ LET batch_size == shape[1]
         uv_dim == IF legacy_mode THEN batch_size ELSE 1
         in_height == shape[2]
         in_width == shape[3]
         out_height == build_out_size(in_height, w_shape[1], strides[1])
         out_width == build_out_size(in_width, w_shape[2], strides[2])
     IN  /\ in_shape' = <<uv_dim, in_height, in_width, w_shape[3]>>
         /\ out_shape' = <<uv_dim, out_height, out_width, w_shape[4]>>
  /\ input_shape' = shape
  /\ phase' = "built"
  /\ UNCHANGED <<w_shape, strides, padding, legacy_mode, output_shape>>
  /\ UNCHANGED <<snvars, covvars, ctorvars>>

\* call(inputs) on inputs of the shape the layer was built for: update_weights
\* needs conv2d(v, w) to have the shape of u (its matmul with u, and the
\* assignment of u_hat to u), and the layer returns conv2d(inputs, kernel)
call_shapes ==
  /\ phase = "built"
  /\ IF conv2d_shape(in_shape) = out_shape
     THEN /\ output_shape' = conv2d_shape(input_shape)
          /\ phase' = "called"
     ELSE /\ output_shape' = <<>>
          /\ phase' = "raised"
  /\ UNCHANGED <<w_shape, strides, padding, legacy_mode, input_shape, in_shape,
                 out_shape>>
  /\ UNCHANGED <<snvars, covvars, ctorvars>>

Build ==
  \E batch \in 1..2, height \in Sizes, width \in Sizes :
    build(<<batch, height, width, channels>>)

-----------------------------------------------------------------------------
(* The two constructors.  An object is the set of the names of the         *)
(* attributes assigned to it so far, with the arguments it was given; a    *)
(* layer is its class and its _name, a name being a sequence of pieces.    *)

LayerClasses == {"Conv2D", "Conv2DTranspose", "Dense", "Conv1D"}
LayerNames == { <<"conv2d">>, <<"stem">> }

\* isinstance(layer, tf.keras.layers.Conv2D): Conv2D and its subclasses
IsConv2D(l) == l.class \in {"Conv2D", "Conv2DTranspose"}

\* SpectralNormalizationConv2D.__init__(layer, iteration, norm_multiplier,
\* training, legacy_mode): the layer and the wrapper it leaves
SpectralNormalizationConv2D__init__(l, k, c, training, legacy) ==
  LET attrs == {"iteration", "do_power_iteration", "aggregation",
                "norm_multiplier", "legacy_mode"}
      args == [iteration |-> k, norm_multiplier |-> c, training |-> training,
               legacy_mode |-> legacy]
      renamed == [l EXCEPT !._name = Append(l._name, "_spec_norm")]
  IN  IF ~IsConv2D(renamed)
      THEN [layer |-> renamed,
            wrapper |-> [state |-> "raised", attrs |-> attrs, args |-> args]]
      ELSE [layer |-> renamed,
            wrapper |-> [state |-> "constructed", attrs |-> attrs \cup {"layer"},
                         args |-> args]]

LikelihoodArguments == _SUPPORTED_LIKELIHOOD \cup {"Gaussian", "probit"}

\* a variant of LaplaceRandomFeatureCovariance__init__ that assigns the
\* attributes before it checks the likelihood
LaplaceRandomFeatureCovariance__init__assigning_first(m, s, lik) ==
  LET args == [momentum |-> m, ridge_penalty |-> s, likelihood |-> lik]
      attrs == {"ridge_penalty", "momentum", "likelihood",
                "use_on_read_synchronization_for_single_replica_vars"}
  IN  IF lik \notin _SUPPORTED_LIKELIHOOD
      THEN [state |-> "raised", attrs |-> attrs, weights |-> {}, args |-> args]
      ELSE [state |-> "constructed", attrs |-> attrs, weights |-> {}, args |-> args]

\* LaplaceRandomFeatureCovariance.__init__(momentum, ridge_penalty,
\* likelihood): the estimator it leaves
LaplaceRandomFeatureCovariance__init__(m, s, lik) ==
  LET args == [momentum |-> m, ridge_penalty |-> s, likelihood |-> lik]
  IN  IF lik \notin _SUPPORTED_LIKELIHOOD
      THEN [state |-> "raised", attrs |-> {}, weights |-> {}, args |-> args]
      ELSE [state |-> "constructed",
            attrs |-> {"ridge_penalty", "momentum", "likelihood",
                       "use_on_read_synchronization_for_single_replica_vars"},
            weights |-> {}, args |-> args]

NoObject == [state |-> "none", attrs |-> {}, weights |-> {}, args |-> <<>>]

\* before either constructor runs, for a layer l
CtorBefore(l) ==
  /\ layer = l
  /\ layer_before = l
  /\ wrapper = [state |-> "none", attrs |-> {}, args |-> <<>>]
  /\ estimator = NoObject

CtorInit ==
  \E class \in LayerClasses, name \in LayerNames :
    CtorBefore([class |-> class, _name |-> name])

\* after the constructions of __main__ and of an estimator with the defaults
CtorMain ==
  /\ layer_before = [class |-> "Conv2D", _name |-> <<"conv2d">>]
  /\ LET r == SpectralNormalizationConv2D__init__(layer_before, 1, I(6), TRUE, FALSE)
     IN  layer = r.layer /\ wrapper = r.wrapper
  /\ estimator = LaplaceRandomFeatureCovariance__init__(Q(999, 1000), I(1), "gaussian")

\* SpectralNormalizationConv2D(layer, ...)
ConstructWrapper ==
  /\ wrapper.state = "none"
  /\ \E k \in 0..MaxIter, c \in NormMultipliers, training \in BOOLEAN,
        legacy \in BOOLEAN :
       LET r == SpectralNormalizationConv2D__init__(layer, k, c, training, legacy)
       IN  layer' = r.layer /\ wrapper' = r.wrapper
  /\ UNCHANGED <<layer_before, estimator>>
  /\ UNCHANGED <<snvars, covvars, shapevars>>

\* LaplaceRandomFeatureCovariance(momentum, ridge_penalty, likelihood)
ConstructEstimator ==
  /\ estimator.state = "none"
  /\ \E m \in Momenta, s \in RidgePenalties, lik \in LikelihoodArguments :
       estimator' = LaplaceRandomFeatureCovariance__init__(m, s, lik)
  /\ UNCHANGED <<layer, layer_before, wrapper>>
  /\ UNCHANGED <<snvars, covvars, shapevars>>

\* LaplaceRandomFeatureCovariance.build: the three add_weight calls
BuildEstimator ==
  /\ estimator.state = "constructed"
  /\ estimator' = [estimator EXCEPT
                     !.state = "built",
                     !.attrs = @ \cup {"initial_precision_matrix"},
                     !.weights = {"precision_matrix", "covariance_matrix",
                                  "if_update_covariance"}]
  /\ UNCHANGED <<layer, layer_before, wrapper>>
  /\ UNCHANGED <<snvars, covvars, shapevars>>

-----------------------------------------------------------------------------
(* The specifications: one per component, the other component built and   *)
(* left alone.                                                             *)

InitSN == SNInit /\ CovDefault /\ ShapeMain /\ CtorMain

NextSN == Forward

SpecSN == InitSN /\ [][NextSN]_vars

InitCov == CovInit /\ SNMain /\ ShapeMain /\ CtorMain

NextCov ==
  \/ Train
  \/ Infer
  \/ reset_precision_matrix
  \/ reset_covariance_matrix

SpecCov == InitCov /\ [][NextCov]_vars

InitShape == ShapeInit /\ SNMain /\ CovDefault /\ CtorMain

NextShape ==
  \/ Build
  \/ call_shapes

SpecShape == InitShape /\ [][NextShape]_vars

InitCtor == CtorInit /\ SNMain /\ CovDefault /\ ShapeMain

NextCtor ==
  \/ ConstructWrapper
  \/ ConstructEstimator
  \/ BuildEstimator

SpecCtor == InitCtor /\ [][NextCtor]_vars

-----------------------------------------------------------------------------
(* Properties of SpectralNormalizationConv2D, checked under SpecSN *)

\* C1: after a forward call returns, the kernel the wrapped layer holds
\* equals, element for element, the kernel it held before the call.
C1_KernelRestored == sn_calls > 0 => kernel = w_pre

\* C7: when the sigma a call estimates is at most norm_multiplier, the kernel
\* the convolution of that call uses is the kernel the layer held, unchanged;
\* a call multiplies the kernel only when norm_multiplier / sigma < 1.
C7_UnderBudgetKeepsKernel ==
  sn_calls > 0 =>
    /\ QLe(sigma, norm_multiplier) => w_used = w_pre
    /\ w_used # w_pre => ratio_below_one(norm_multiplier, sigma)

Normalized(x) ==
  LET n2 == QSum(Tuple([i \in 1..Len(x) |-> QMul(x[i], x[i])], Len(x)))
  IN  IF n2 = I(0) THEN x
      ELSE Tuple([i \in 1..Len(x) |-> QDiv(x[i], QSqrt(n2))], Len(x))

\* u and v after n rounds of v <- normalize(conv_transpose(u, W)) followed by
\* u <- normalize(conv(v, W)), from the u and v the call found
RECURSIVE Rounds(_)
Rounds(n) ==
  IF n = 0 THEN <<u_pre, v_pre>>
  ELSE LET before == Rounds(n - 1)
           v_next == Normalized(conv2d_transpose(before[1], w_pre))
           u_next == Normalized(conv2d(v_next, w_pre))
       IN  <<u_next, v_next>>

\* C15: with the estimate flag false, or with it true and k = 0, a forward
\* call leaves u and v as it found them and computes sigma from them; with
\* the flag true and k >= 1 it leaves in u and v the result of exactly k
\* rounds of v <- normalize(conv_transpose(u, W)), u <- normalize(conv(v, W)).
C15_StoredVectors ==
  sn_calls > 0 =>
    IF ~do_power_iteration \/ iteration = 0
    THEN /\ u = u_pre
         /\ v = v_pre
         /\ sigma = Dot(conv2d(v_pre, w_pre), u_pre)
    ELSE /\ <<u, v>> = Rounds(iteration)
         /\ sigma = Dot(conv2d(v, w_pre), u)

C15_Witness ==
  /\ sn_calls > 0
  /\ do_power_iteration
  /\ iteration = MaxIter
  /\ u # u_pre
  /\ v # v_pre
  /\ Rounds(1) # Rounds(0)

-----------------------------------------------------------------------------
(* Properties of LaplaceRandomFeatureCovariance, checked under SpecCov,    *)
(* read off the record of the operations invoked so far.                   *)

\* the state operation i left
PAfter(i) == IF i = Len(log) THEN precision_matrix ELSE log[i + 1].P
CAfter(i) == IF i = Len(log) THEN covariance_matrix ELSE log[i + 1].C
FlagAfter(i) == IF i = Len(log) THEN if_update_covariance ELSE log[i + 1].flag

\* the operation that produced the current state: every operation is the
\* last one in the state it leaves
Last == Len(log)

\* operation i was a training-mode call that ran to its end
Trained(i) == log[i].op = "call" /\ log[i].training /\ ~log[i].raised
\* operation i was an inference-mode call
Inferred(i) == log[i].op = "call" /\ ~log[i].training
Reset(i) == log[i].op = "reset"

\* the weight of example i in the minibatch precision matrix
Weight(logits, i) ==
  CASE likelihood = "gaussian" -> I(1)
    [] likelihood = "poisson" -> logits[i][1]
    [] likelihood = "binary_logistic" ->
         QDiv(logits[i][1],
              QMul(QAdd(I(1), logits[i][1]), QAdd(I(1), logits[i][1])))

\* M[j][k] = sum over the examples i of weight_i * phi_i[j] * phi_i[k]
Gram(inputs, logits) ==
  Tuple([j \in 1..gp_feature_dim |->
           Tuple([k \in 1..gp_feature_dim |->
                    QSum(Tuple([i \in 1..Len(inputs) |->
                                  QMul(Weight(logits, i),
                                       QMul(inputs[i][j], inputs[i][k]))],
                               Len(inputs)))],
                 gp_feature_dim)],
        gp_feature_dim)

\* C2: the first inference-mode call after a training-mode call performs
\* exactly one matrix inversion; every further inference-mode call with no
\* training-mode call in between performs none and leaves the covariance
\* matrix as it was.
C2_OneInversionPerRun ==
  \A i \in 1..Len(log) :
    Inferred(i) =>
      /\ (\E j \in 1..(i - 1) :
            Trained(j) /\ \A k \in (j + 1)..(i - 1) : ~Inferred(k))
           => log[i].inversions = 1
      /\ (\E j \in 1..(i - 1) :
            Inferred(j) /\ \A k \in (j + 1)..(i - 1) : ~Trained(k))
           => (log[i].inversions = 0 /\ CAfter(i) = log[i].C)

C2_Witness ==
  \E i \in 1..(Len(log) - 2) :
    /\ Trained(i)
    /\ Inferred(i + 1) /\ log[i + 1].inversions = 1
    /\ Inferred(i + 2) /\ log[i + 2].inversions = 0
    /\ log[i + 1].C # CAfter(i + 1)

\* the precision matrix was written since the covariance matrix was last
\* computed from it, or the covariance matrix was never computed from it
Stale ==
  \A i \in 1..Len(log) :
    log[i].inversions = 1 =>
      \E k \in (i + 1)..Len(log) : Trained(k) \/ Reset(k)

\* C3: in every state reachable from build, the covariance matrix is stale
\* exactly when the dirty flag is true; when the flag is false the covariance
\* matrix is the inverse of ridge_penalty * I + precision matrix.
C3_CacheValid ==
  /\ Stale <=> if_update_covariance
  /\ ~if_update_covariance =>
       covariance_matrix =
         MatInv(MatAdd(MatScale(ridge_penalty, Eye(gp_feature_dim)),
                       precision_matrix))

C5_MomentumUpdate ==
  \A i \in {Last} \ {0} :
    (Trained(i) /\ QLt(I(0), momentum)) =>
      LET M == Gram(log[i].inputs, log[i].logits)
          b == I(Len(log[i].inputs))
      IN  \A j \in 1..gp_feature_dim : \A k \in 1..gp_feature_dim :
            PAfter(i)[j][k] =
              QAdd(QMul(momentum, log[i].P[j][k]),
                   QMul(QSub(I(1), momentum), QDiv(M[j][k], b)))

C5_Witness ==
  \E i \in 1..Len(log) :
    /\ Trained(i)
    /\ QLt(Q(1, 2), momentum)
    /\ Len(log[i].inputs) > 1
    /\ log[i].P # Zeros(gp_feature_dim, gp_feature_dim)
    /\ PAfter(i) # log[i].P

\* C6: with momentum <= 0, two training-mode calls in a row leave
\* P = P_0 + M_1 + M_2, with no division by the batch size, and the two
\* minibatches applied in the other order leave the same matrix.
C6_ExactSum ==
  \A i \in {Last - 1} \ {-1, 0} :
    (Trained(i) /\ Trained(i + 1) /\ QLe(momentum, I(0))) =>
      LET P0 == log[i].P
          M1 == Gram(log[i].inputs, log[i].logits)
          M2 == Gram(log[i + 1].inputs, log[i + 1].logits)
      IN  /\ PAfter(i + 1) = MatAdd(MatAdd(P0, M1), M2)
          /\ PAfter(i + 1) =
               precision_matrix_new(
                 precision_matrix_new(P0, log[i + 1].inputs, log[i + 1].logits),
                 log[i].inputs, log[i].logits)

C6_Witness ==
  \E i \in 1..(Len(log) - 1) :
    /\ Trained(i) /\ Trained(i + 1)
    /\ QLe(momentum, I(0))
    /\ Len(log[i].inputs) # Len(log[i + 1].inputs)
    /\ log[i].P # Zeros(gp_feature_dim, gp_feature_dim)

\* the logits the validation refuses: missing, or last dimension not 1
BadLogits(logits) == logits = None \/ Len(logits[1]) # 1

\* C10 as stated: under a likelihood other than gaussian a call is rejected
\* when its logits are missing or their last dimension is not 1, whatever
\* its training flag; under gaussian no call is rejected.
C10_RejectedWhateverTraining ==
  \A i \in 1..Len(log) :
    log[i].op = "call" =>
      /\ (likelihood # "gaussian" /\ BadLogits(log[i].logits)) => log[i].raised
      /\ likelihood = "gaussian" => ~log[i].raised

\* C10: under a likelihood other than gaussian a training-mode call is
\* rejected exactly when its logits are missing or their last dimension is
\* not 1; an inference-mode call is never rejected, and under gaussian no
\* call is rejected.
C10_RejectedInTraining ==
  \A i \in 1..Len(log) :
    log[i].op = "call" =>
      (log[i].raised <=>
         (log[i].training /\ likelihood # "gaussian" /\ BadLogits(log[i].logits)))

C10_Witness ==
  /\ likelihood # "gaussian"
  /\ \E i \in 1..Len(log) :
       log[i].training /\ log[i].logits # None /\ log[i].raised
  /\ \E i \in 1..Len(log) :
       log[i].training /\ log[i].logits = None /\ log[i].raised
  /\ \E i \in 1..Len(log) :
       Inferred(i) /\ BadLogits(log[i].logits) /\ ~log[i].raised

\* the b-by-b identity matrix, entry by entry
IsIdentity(A, b) ==
  /\ Len(A) = b
  /\ \A j \in 1..b :
       /\ Len(A[j]) = b
       /\ \A k \in 1..b : A[j][k] = IF j = k THEN I(1) ELSE I(0)

\* C13: every accepted training-mode call on a minibatch of b feature
\* vectors writes the precision matrix (the moving average for momentum > 0,
\* the sum otherwise), sets the dirty flag, leaves the covariance matrix as
\* it was and returns the b-by-b identity matrix.
C13_TrainingCallFrame ==
  \A i \in {Last} \ {0} :
    Trained(i) =>
      LET M == Gram(log[i].inputs, log[i].logits)
          b == Len(log[i].inputs)
      IN  /\ PAfter(i) =
               IF QLt(I(0), momentum)
               THEN MatAdd(MatScale(momentum, log[i].P),
                           MatScale(QMul(QSub(I(1), momentum), QDiv(I(1), I(b))), M))
               ELSE MatAdd(log[i].P, M)
          /\ FlagAfter(i) = TRUE
          /\ CAfter(i) = log[i].C
          /\ IsIdentity(log[i].ret, b)

C13_Witness ==
  \E i \in 1..Len(log) :
    /\ Trained(i)
    /\ ~log[i].flag
    /\ FlagAfter(i)
    /\ PAfter(i) # log[i].P
    /\ Len(log[i].ret) = MaxBatch

\* ridge_penalty * Phi * inverse(ridge_penalty * I + P) * Phi^T
PredictiveCovariance(P, Phi) ==
  MatScale(ridge_penalty,
           MatMul(MatMul(Phi,
                         MatInv(MatAdd(MatScale(ridge_penalty, Eye(gp_feature_dim)), P))),
                  Transpose(Phi)))

\* C14: an inference-mode call that finds the dirty flag true stores
\* inverse(ridge_penalty * I + P) as the covariance matrix and returns
\* ridge_penalty * Phi * inverse(ridge_penalty * I + P) * Phi^T for the P it
\* found, leaves P as it was and leaves the flag false.
C14_InferenceRecomputes ==
  \A i \in {Last} \ {0} :
    (Inferred(i) /\ log[i].flag) =>
      /\ CAfter(i) =
           MatInv(MatAdd(MatScale(ridge_penalty, Eye(gp_feature_dim)), log[i].P))
      /\ log[i].ret = PredictiveCovariance(log[i].P, log[i].inputs)
      /\ PAfter(i) = log[i].P
      /\ FlagAfter(i) = FALSE

C14_Witness ==
  \E i \in 1..Len(log) :
    /\ Inferred(i)
    /\ log[i].flag
    /\ CAfter(i) # log[i].C
    /\ log[i].ret # compute_predictive_covariance(log[i].C, log[i].inputs)
    /\ log[i].P # Zeros(gp_feature_dim, gp_feature_dim)

\* C17: a call rejected with a logits error leaves the precision matrix, the
\* covariance matrix and the dirty flag as they were before the call.
C17_RejectedCallFrame ==
  \A i \in {Last} \ {0} :
    (log[i].op = "call" /\ log[i].raised) =>
      /\ PAfter(i) = log[i].P
      /\ CAfter(i) = log[i].C
      /\ FlagAfter(i) = log[i].flag

C17_Witness ==
  \E i \in 1..Len(log) :
    /\ log[i].op = "call" /\ log[i].raised
    /\ log[i].flag
    /\ log[i].P # Zeros(gp_feature_dim, gp_feature_dim)
    /\ \E j \in 1..Len(log) :
         log[j].op = "call" /\ log[j].raised /\ log[j].logits # log[i].logits


-----------------------------------------------------------------------------
(* Properties of the shapes, checked under SpecShape *)

\* the wrapper of __main__, built for and called on a (1, 229, 229, 3) input
MainCalled ==
  /\ w_shape = <<3, 3, channels, filters>>
  /\ strides = <<2, 2>>
  /\ padding = "VALID"
  /\ iteration = 1
  /\ norm_multiplier = I(6)
  /\ do_power_iteration
  /\ input_shape = <<1, 229, 229, channels>>
  /\ phase \in {"called", "raised"}

\* C9 as stated: the call of __main__ on a (1, 229, 229, 3) input returns
\* a tensor of shape (1, 113, 113, 32), and u has that shape.
C9_MainShape113 ==
  MainCalled =>
    /\ phase = "called"
    /\ output_shape = <<1, 113, 113, filters>>
    /\ out_shape = <<1, 113, 113, filters>>

\* C9: the call of __main__ on a (1, 229, 229, 3) input returns a tensor of
\* shape (1, 114, 114, 32), and u has that shape.
C9_MainShape114 ==
  MainCalled =>
    /\ phase = "called"
    /\ output_shape = <<1, 114, 114, filters>>
    /\ out_shape = <<1, 114, 114, filters>>

C9_Witness == MainCalled /\ phase = "called" /\ output_shape = out_shape

\* C16: for every input height and width, kernel size, stride and padding
\* mode, the shape build gives u is the shape of conv2d(v, W), so that the
\* forward call never fails on the shapes of u.
C16_UShapeIsConvShape ==
  phase # "constructed" =>
    /\ out_shape = conv2d_shape(in_shape)
    /\ phase # "raised"

-----------------------------------------------------------------------------
(* Properties of the constructors, checked under SpecCtor *)

\* C11: a construction of the wrapper that is rejected because the operator
\* is no 2-D convolution leaves the operator passed in, its name included,
\* exactly as it was before.
C11_RejectedLeavesOperator ==
  wrapper.state = "raised" => layer = layer_before

\* C12: a construction of the estimator with a likelihood outside
\* {gaussian, binary_logistic, poisson} is rejected with no attribute and no
\* weight of the estimator created; a construction with one of the three
\* succeeds.
C12_LikelihoodValidated ==
  estimator.state # "none" =>
    IF estimator.args.likelihood \in {"gaussian", "binary_logistic", "poisson"}
    THEN /\ estimator.state \in {"constructed", "built"}
         /\ {"ridge_penalty", "momentum", "likelihood"} \subseteq estimator.attrs
    ELSE /\ estimator.state = "raised"
         /\ estimator.attrs = {}
         /\ estimator.weights = {}

C12_Witness ==
  /\ estimator.state = "raised"
  /\ estimator.args.likelihood = "Gaussian"
  /\ wrapper.state # "none"

====
